---- MODULE Spec2Model ----
(***************************************************************************)
(* Model of the native win32 Ruby script launcher, windows/rockup.c.       *)
(*                                                                         *)
(* main() is modelled statement by statement; pc is the position in main.  *)
(* A C string is a sequence of one-character strings, a buffer is modelled *)
(* by the string it holds (the bytes before its first NUL).  Indices i, x  *)
(* are the C (0-based) indices; buffer element k is sequence element k+1.  *)
(*                                                                         *)
(* SZ is 32767 in the source (rockup.c line 7).  The model keeps every use *)
(* of SZ symbolic and checks it at a small value, so that path lengths and *)
(* argument counts around SZ are reachable.  The value only has to exceed  *)
(* the length of the longer fixed suffix plus one.                         *)
(***************************************************************************)
EXTENDS Integers, Sequences, FiniteSets, TLC

VARIABLES
    debug,      \* TRUE iff the build does not define NDEBUG
    _argc,      \* int _argc
    _argv,      \* char** _argv: the _argc argument strings
    selfPath,   \* what GetModuleFileName reports for this process
    pc,         \* position in main
    i,          \* int i
    x,          \* int x of the copy loop
    root,       \* char* root
    ruby,       \* char* ruby
    script,     \* char* script
    argv,       \* char** argv: SZ slots
    out,        \* lines written to standard output
    ub,         \* kind of out-of-bounds access that has happened, or "none"
    spawnCalls, \* number of _spawnvp calls issued
    spawnPath,  \* cmdname handed to _spawnvp
    spawnArgv,  \* argument vector handed to _spawnvp, up to and including NULL
    spawnOut,   \* standard output as it was when _spawnvp was called
    child,      \* "none", "running" or "exited"
    childCode,  \* exit code of the child, once it has exited
    ret         \* value returned by main, once pc = "done"

vars == << debug, _argc, _argv, selfPath, pc, i, x, root, ruby,
           script, argv, out, ub, spawnCalls, spawnPath, spawnArgv, spawnOut,
           child, childCode, ret >>

----------------------------------------------------------------------------
(* Bounds of the model *)

SZ == 32

MaxShort == 4

MaxOob == 2

MaxSmallArgs == 2

----------------------------------------------------------------------------
(* Strings *)

Sep == "\\"

\* The null pointer, and a pointer read from outside a buffer: neither is a
\* sequence of one-character strings, so neither equals any C string.
NULL == << "NULL" >>

Garbage == << "GARBAGE" >>

\* variant: the interpreter named without its extension
RubySuffixNoExe ==
    << "\\", "r", "u", "b", "y", "\\", "b", "i", "n", "\\", "r", "u", "b", "y" >>

RubySuffix ==
    << "\\", "r", "u", "b", "y", "\\", "b", "i", "n", "\\",
       "r", "u", "b", "y", ".", "e", "x", "e" >>

ScriptSuffix ==
    << "\\", "r", "u", "b", "y", "\\", "b", "i", "n", "\\",
       "r", "o", "c", "k", "u", "p" >>

ProgName == << "l", "a", "u", "n", "c", "h", "e", "r" >>

FooTxt == << "f", "o", "o", ".", "t", "x", "t" >>

Verbose == << "-", "-", "v", "e", "r", "b", "o", "s", "e" >>

SeqsUpTo(S, n) == UNION { [1..k -> S] : k \in 0..n }

Pad(c, k) == [j \in 1..k |-> c]

strlen(s) == Len(s)

\* buf[k] for a C (0-based) index k inside the buffer
At(buf, k) == buf[k + 1]

\* variant: the copy loop reads _argv[x - 1]
ArgPrev(av, k) == At(av, k - 1)

\* _argv[x] of the copy loop
Arg(av, k) == At(av, k)

\* variant: '/' is taken for a separator as well
IsSepOrSlash(c) == c \in { Sep, "/" }

\* root[--i] != '\\' is false
IsSep(c) == c = Sep

\* variant: root[i + 1] = '\0', which keeps the separator
TruncateAfter(r, k) == SubSeq(r, 1, k + 1)

\* root[k] = '\0': the string in root ends before index k
Truncate(r, k) == SubSeq(r, 1, k)

\* variant: malloc, whose slots hold whatever the heap held
Malloc(n) == [k \in 1..n |-> Garbage]

\* calloc(n, sizeof(char*)): n slots, all null
Calloc(n) == [k \in 1..n |-> NULL]

NumSeps(s) == Cardinality({ k \in 1..Len(s) : s[k] = Sep })

\* variant: _snprintf, which stores size bytes and no NUL when the text is
\* too long
snprintfNoNul(size, r, suffix) ==
    LET full == r \o suffix
    IN  IF Len(full) <= size - 1 THEN full ELSE SubSeq(full, 1, size)

\* snprintf(buf, size, "%s<suffix>", r): at most size-1 bytes of the formatted
\* text are stored, followed by the terminating NUL.
snprintf(size, r, suffix) ==
    LET full == r \o suffix
    IN  IF Len(full) <= size - 1 THEN full ELSE SubSeq(full, 1, size - 1)

----------------------------------------------------------------------------
(* Inputs: the argument vector and the module file name *)

PathChars == { Sep, "a", "/" }

ShortPaths == SeqsUpTo(PathChars, MaxShort)

Tails == { << Sep, "b", Sep, "l" >>, << Sep, Sep >>, << Sep, "l" >>, << "l" >> }

LongPaths == { Pad("x", k) \o t : k \in 1..(SZ - 1), t \in Tails }

WinScenarioPath ==
    << "\\", "o", "p", "t", "\\", "a", "p", "p", "\\", "b", "i", "n", "\\",
       "l", "a", "u", "n", "c", "h", "e", "r" >>

UnixScenarioPath ==
    << "/", "o", "p", "t", "/", "a", "p", "p", "/", "b", "i", "n", "/",
       "l", "a", "u", "n", "c", "h", "e", "r" >>

\* GetModuleFileName stores at most SZ-1 characters and the NUL.
SelfPaths ==
    { p \in ShortPaths \cup LongPaths \cup { WinScenarioPath, UnixScenarioPath } :
        Len(p) <= SZ - 1 }

FewPaths ==
    { WinScenarioPath, << "x", Sep, "b", Sep, "l" >>,
      Pad("x", SZ - 6) \o << Sep, "b", Sep, "l" >> }

ArgStrs == { FooTxt, Verbose, << >> }

SmallArgvs == { << ProgName >> \o s : s \in SeqsUpTo(ArgStrs, MaxSmallArgs) }

\* n forwarded arguments, pairwise different, for every n up to SZ
LongArgvs == { << ProgName >> \o [j \in 1..n |-> Pad("a", j)] : n \in 3..SZ }

FewArgvs == { << ProgName >>, << ProgName, FooTxt, Verbose >> }

Inputs == (SelfPaths \X FewArgvs) \cup (FewPaths \X (SmallArgvs \cup LongArgvs))

----------------------------------------------------------------------------
(* The return value of _spawnvp and the exit status of the launcher.       *)
(* A machine word is the sequence of its 16-bit limbs, lowest first: a     *)
(* DWORD and an int have two limbs, an intptr_t two or four.               *)

Limb == 2^16

Dword(lo, hi) == << lo, hi >>

ExitCodes ==
    { Dword(0, 0), Dword(1, 0), Dword(3, 0), Dword(255, 0), Dword(256, 0),
      Dword(0, 1), Dword(0, 2^15), Dword(Limb - 1, Limb - 1) }

IntPtrLimbs == { 2, 4 }

\* (intptr_t) of a 32-bit int: sign extension to w limbs
ToIntPtr(v, w) ==
    [k \in 1..w |-> IF k <= 2 THEN v[k]
                    ELSE IF v[2] >= 2^15 THEN Limb - 1 ELSE 0]

\* variant: a failed spawn reported as 0
SpawnFailureZero(w) == [k \in 1..w |-> 0]

\* -1, the value _spawnvp returns when no process was created
SpawnFailure(w) == [k \in 1..w |-> Limb - 1]

\* the value _spawnvp returns in mode _P_WAIT: the exit code of the child
SpawnResult(code, w) == ToIntPtr(code, w)

\* variant: only the low byte survives, as in a POSIX wait status
ToIntByte(v) == << v[1] % 2^8, 0 >>

\* intptr_t -> int on return from main: the low 32 bits
ToInt(v) == << v[1], v[2] >>

\* the exit status the OS records for the process: the int as a DWORD
ExitStatus(r) == Dword(r[1], r[2])

\* variant: _P_NOWAIT, _spawnvp returns at once with the process handle
SpawnModeNoWait == "P_NOWAIT"

\* _P_WAIT: _spawnvp returns when the child has terminated
SpawnMode == "P_WAIT"

----------------------------------------------------------------------------
(* Lines of standard output *)

ArgcLine(n) == [fmt |-> "argc = %d", n |-> n, s |-> << >>]

InLine(s) == [fmt |-> "^ %s", n |-> 0, s |-> s]

OutLine(s) == [fmt |-> "> %s", n |-> 0, s |-> s]

\* the first out-of-bounds access of the run is the one recorded
SetUb(kind) == IF ub = "none" THEN kind ELSE ub

----------------------------------------------------------------------------
Init ==
    /\ debug \in BOOLEAN
    /\ \E in \in Inputs :
        /\ selfPath = in[1]
        /\ _argv = in[2]
        /\ _argc = Len(in[2])
    /\ pc = "start"
    /\ i = 0
    /\ x = 0
    /\ root = NULL
    /\ ruby = NULL
    /\ script = NULL
    /\ argv = << >>
    /\ out = << >>
    /\ ub = "none"
    /\ spawnCalls = 0
    /\ spawnPath = NULL
    /\ spawnArgv = << >>
    /\ spawnOut = << >>
    /\ child = "none"
    /\ childCode = Dword(0, 0)
    /\ ret = Dword(0, 0)

\* An access outside a buffer may also end the process with a fault.
Fault(kind) ==
    /\ pc' = "crashed"
    /\ ub' = SetUb(kind)
    /\ UNCHANGED << debug, _argc, _argv, selfPath, i, x, root, ruby, script,
                    argv, out, spawnCalls, spawnPath, spawnArgv, spawnOut,
                    child, childCode, ret >>

\* lines 11-13: i = 0; printf("argc = %d\n", _argc);
Start ==
    /\ pc = "start"
    /\ IF debug
       THEN /\ i' = 0
            /\ out' = Append(out, ArgcLine(_argc))
            /\ pc' = "dbg_in"
       ELSE /\ pc' = "getmodule"
            /\ UNCHANGED << i, out >>
    /\ UNCHANGED << debug, _argc, _argv, selfPath, x, root, ruby, script, argv,
                    ub, spawnCalls, spawnPath, spawnArgv, spawnOut, child,
                    childCode, ret >>

\* lines 14-16: while(i < _argc) printf("^ %s\n", _argv[i++]);
DbgIn ==
    /\ pc = "dbg_in"
    /\ IF i < _argc
       THEN /\ out' = Append(out, InLine(At(_argv, i)))
            /\ i' = i + 1
            /\ pc' = pc
       ELSE /\ pc' = "getmodule"
            /\ UNCHANGED << i, out >>
    /\ UNCHANGED << debug, _argc, _argv, selfPath, x, root, ruby, script, argv,
                    ub, spawnCalls, spawnPath, spawnArgv, spawnOut, child,
                    childCode, ret >>

\* lines 18-20: root = malloc(SZ); GetModuleFileName(NULL, root, SZ);
\*              i = strlen(root);
GetModule ==
    /\ pc = "getmodule"
    /\ root' = selfPath
    /\ i' = strlen(selfPath)
    /\ pc' = "scan1"
    /\ UNCHANGED << debug, _argc, _argv, selfPath, x, ruby, script, argv, out,
                    ub, spawnCalls, spawnPath, spawnArgv, spawnOut, child,
                    childCode, ret >>

\* One iteration of while(root[--i] != '\\'); leaving to pc value next when
\* the byte read is the separator.  Below index 0 the read is outside the
\* buffer: it faults, or yields whatever byte the heap holds there.
ScanStep(here, next) ==
    /\ pc = here
    /\ LET j == i - 1
       IN  IF j >= 0
           THEN /\ i' = j
                /\ pc' = IF IsSep(At(root, j)) THEN next ELSE here
                /\ UNCHANGED ub
                /\ UNCHANGED << debug, _argc, _argv, selfPath, x, root, ruby,
                                script, argv, out, spawnCalls, spawnPath,
                                spawnArgv, spawnOut, child, childCode, ret >>
           ELSE \/ Fault("scan_read")
                \/ /\ i' = j
                   /\ ub' = SetUb("scan_read")
                   /\ \/ pc' = next
                      \/ j > -MaxOob /\ pc' = here
                   /\ UNCHANGED << debug, _argc, _argv, selfPath, x, root,
                                   ruby, script, argv, out, spawnCalls,
                                   spawnPath, spawnArgv, spawnOut, child,
                                   childCode, ret >>

\* line 21, first loop
Scan1 == ScanStep("scan1", "scan2")

\* line 21, second loop
Scan2 == ScanStep("scan2", "term")

\* line 21: root[i] = '\0';  A write below index 0 leaves the string in root
\* as it is (and damages the heap), or faults.
Term ==
    /\ pc = "term"
    /\ IF i >= 0
       THEN /\ root' = Truncate(root, i)
            /\ pc' = "fmt_ruby"
            /\ UNCHANGED ub
            /\ UNCHANGED << debug, _argc, _argv, selfPath, i, x, ruby, script,
                            argv, out, spawnCalls, spawnPath, spawnArgv,
                            spawnOut, child, childCode, ret >>
       ELSE \/ Fault("term_write")
            \/ /\ pc' = "fmt_ruby"
               /\ ub' = SetUb("term_write")
               /\ UNCHANGED << debug, _argc, _argv, selfPath, i, x, root, ruby,
                               script, argv, out, spawnCalls, spawnPath,
                               spawnArgv, spawnOut, child, childCode, ret >>

\* lines 22-23
FmtRuby ==
    /\ pc = "fmt_ruby"
    /\ ruby' = snprintf(SZ, root, RubySuffix)
    /\ pc' = "fmt_script"
    /\ UNCHANGED << debug, _argc, _argv, selfPath, i, x, root, script, argv,
                    out, ub, spawnCalls, spawnPath, spawnArgv, spawnOut, child,
                    childCode, ret >>

\* lines 24-25
FmtScript ==
    /\ pc = "fmt_script"
    /\ script' = snprintf(SZ, root, ScriptSuffix)
    /\ pc' = "init_argv"
    /\ UNCHANGED << debug, _argc, _argv, selfPath, i, x, root, ruby, argv, out,
                    ub, spawnCalls, spawnPath, spawnArgv, spawnOut, child,
                    childCode, ret >>

\* lines 26-29: argv = calloc(SZ, sizeof(char*)); i = 0;
\*              argv[i++] = ruby; argv[i++] = script;   (and x = 1 of line 30)
InitArgv ==
    /\ pc = "init_argv"
    /\ argv' = [Calloc(SZ) EXCEPT ![1] = ruby, ![2] = script]
    /\ i' = 2
    /\ x' = 1
    /\ pc' = "copy"
    /\ UNCHANGED << debug, _argc, _argv, selfPath, root, ruby, script, out, ub,
                    spawnCalls, spawnPath, spawnArgv, spawnOut, child,
                    childCode, ret >>

\* lines 30-32: for(x = 1; x < _argc; ++x) argv[i++] = _argv[x];
\* On leaving the loop a debug build runs i = 0 of line 34.  A write at index
\* SZ or above is outside the buffer: it faults, or lands in the heap and the
\* loop goes on.
Copy ==
    /\ pc = "copy"
    /\ IF x < _argc
       THEN IF i < SZ
            THEN /\ argv' = [argv EXCEPT ![i + 1] = Arg(_argv, x)]
                 /\ i' = i + 1
                 /\ x' = x + 1
                 /\ pc' = pc
                 /\ UNCHANGED ub
                 /\ UNCHANGED << debug, _argc, _argv, selfPath, root, ruby,
                                 script, out, spawnCalls, spawnPath, spawnArgv,
                                 spawnOut, child, childCode, ret >>
            ELSE \/ Fault("argv_write")
                 \/ /\ i' = i + 1
                    /\ x' = x + 1
                    /\ pc' = pc
                    /\ ub' = SetUb("argv_write")
                    /\ UNCHANGED << debug, _argc, _argv, selfPath, root, ruby,
                                    script, argv, out, spawnCalls, spawnPath,
                                    spawnArgv, spawnOut, child, childCode, ret >>
       ELSE /\ pc' = IF debug THEN "dbg_out" ELSE "spawn"
            /\ i' = IF debug THEN 0 ELSE i
            /\ UNCHANGED << debug, _argc, _argv, selfPath, x, root, ruby, script,
                            argv, out, ub, spawnCalls, spawnPath, spawnArgv,
                            spawnOut, child, childCode, ret >>

\* lines 35-37: while(argv[i]) printf("> %s\n", argv[i++]);
\* A read at index SZ or above is outside the buffer: it faults, or yields a
\* null pointer, or yields some other pointer that is then printed.
DbgOut ==
    /\ pc = "dbg_out"
    /\ IF i < SZ
       THEN /\ IF At(argv, i) # NULL
               THEN /\ out' = Append(out, OutLine(At(argv, i)))
                    /\ i' = i + 1
                    /\ pc' = pc
               ELSE /\ pc' = "spawn"
                    /\ UNCHANGED << i, out >>
            /\ UNCHANGED ub
            /\ UNCHANGED << debug, _argc, _argv, selfPath, x, root, ruby, script,
                            argv, spawnCalls, spawnPath, spawnArgv, spawnOut,
                            child, childCode, ret >>
       ELSE \/ Fault("argv_read")
            \/ /\ ub' = SetUb("argv_read")
               /\ \/ /\ pc' = "spawn"
                     /\ UNCHANGED << i, out >>
                  \/ /\ i < SZ + MaxOob
                     /\ out' = Append(out, OutLine(Garbage))
                     /\ i' = i + 1
                     /\ pc' = pc
               /\ UNCHANGED << debug, _argc, _argv, selfPath, x, root, ruby,
                               script, argv, spawnCalls, spawnPath, spawnArgv,
                               spawnOut, child, childCode, ret >>

\* The index of the first null entry of a buffer, or 0 when it has none.
FirstNull(buf) ==
    IF \E k \in 1..Len(buf) : buf[k] = NULL
    THEN CHOOSE k \in 1..Len(buf) :
            buf[k] = NULL /\ \A m \in 1..(k - 1) : buf[m] # NULL
    ELSE 0

\* The null-terminated vector _spawnvp reads from the buffer.
ChildArgv(buf) == SubSeq(buf, 1, FirstNull(buf))

\* line 39: the call _spawnvp(_P_WAIT, argv[0], argv).  _spawnvp reads argv
\* up to its null entry; when the buffer holds none the read leaves the buffer
\* and faults or finds a null entry further on.  ok says whether the OS
\* created the process; w is the width of intptr_t in limbs.
SpawnCall(ok, w, past) ==
    /\ pc = "spawn"
    /\ spawnCalls' = spawnCalls + 1
    /\ spawnPath' = At(argv, 0)
    /\ spawnOut' = out
    /\ IF FirstNull(argv) # 0
       THEN /\ past = << >>
            /\ spawnArgv' = ChildArgv(argv)
            /\ UNCHANGED ub
       ELSE /\ spawnArgv' = argv \o past \o << NULL >>
            /\ ub' = SetUb("argv_read")
    /\ IF ok
       THEN /\ child' = "running"
            /\ IF SpawnMode = "P_WAIT"
               THEN /\ pc' = "waiting"
                    /\ UNCHANGED ret
               ELSE /\ pc' = "done"
                    /\ ret' = ToInt(ToIntPtr(Dword(4, 0), w))
       ELSE /\ pc' = "done"
            /\ ret' = ToInt(SpawnFailure(w))
            /\ UNCHANGED child
    /\ UNCHANGED << debug, _argc, _argv, selfPath, i, x, root, ruby, script,
                    argv, out, childCode >>

SpawnOk == \E w \in IntPtrLimbs, past \in { << >>, << Garbage >> } :
              SpawnCall(TRUE, w, past)

SpawnFail == \E w \in IntPtrLimbs, past \in { << >>, << Garbage >> } :
                SpawnCall(FALSE, w, past)

SpawnFault ==
    /\ pc = "spawn"
    /\ FirstNull(argv) = 0
    /\ Fault("argv_read")

\* the child terminates with some exit code
ChildExit ==
    /\ child = "running"
    /\ \E c \in ExitCodes : childCode' = c
    /\ child' = "exited"
    /\ UNCHANGED << debug, _argc, _argv, selfPath, pc, i, x, root, ruby, script,
                    argv, out, ub, spawnCalls, spawnPath, spawnArgv, spawnOut,
                    ret >>

\* line 39: _spawnvp returns the exit code of the terminated child and main
\* returns it
Return ==
    /\ pc = "waiting"
    /\ child = "exited"
    /\ \E w \in IntPtrLimbs : ret' = ToInt(SpawnResult(childCode, w))
    /\ pc' = "done"
    /\ UNCHANGED << debug, _argc, _argv, selfPath, i, x, root, ruby, script,
                    argv, out, ub, spawnCalls, spawnPath, spawnArgv, spawnOut,
                    child, childCode >>

Next ==
    \/ Start
    \/ DbgIn
    \/ GetModule
    \/ Scan1
    \/ Scan2
    \/ Term
    \/ FmtRuby
    \/ FmtScript
    \/ InitArgv
    \/ Copy
    \/ DbgOut
    \/ SpawnOk
    \/ SpawnFail
    \/ SpawnFault
    \/ ChildExit
    \/ Return

Spec == Init /\ [][Next]_vars

----------------------------------------------------------------------------
(* Properties *)

\* the two separators of the expected layout are in selfPath
TwoSeps == NumSeps(selfPath) >= 2

\* the two derived paths, the forwarded arguments and the null entry fit
FitsArgv == (_argc - 1) + 3 <= SZ

ScanPcs == { "start", "dbg_in", "getmodule", "scan1", "scan2" }

\* the truncation of line 21 has been carried out
Truncated == pc \notin ScanPcs \cup { "term" } /\ ub \notin { "scan_read", "term_write" }

\* both paths have been formatted
Formatted == Truncated /\ script # NULL

\* the copy loop has been left in the normal way
Copied == pc \in { "dbg_out", "spawn", "waiting", "done" }

AllOnes == Dword(Limb - 1, Limb - 1)

\* the diagnostic lines of a debug build, in the order they are written
DiagIn == << ArgcLine(_argc) >> \o [k \in 1.._argc |-> InLine(_argv[k])]

DiagOut(av) == [k \in 1..(Len(av) - 1) |-> OutLine(av[k])]

\* C1: whenever the forwarded arguments fit the buffer (and the path has its
\* two separators), the vector handed to _spawnvp is exactly
\* [InterpreterPath, ScriptPath, p1, ..., pn, NULL]: p0 dropped, order and
\* values kept, null entry last.
C1_ChildArgv ==
    (spawnCalls > 0 /\ TwoSeps /\ FitsArgv)
        => spawnArgv = << ruby, script >> \o Tail(_argv) \o << NULL >>

C1_Witness ==
    /\ spawnCalls = 1
    /\ TwoSeps
    /\ _argc = 3
    /\ _argv[2] # _argv[3]
    /\ spawnArgv = << ruby, script, _argv[2], _argv[3], NULL >>

\* p is r, a separator, a directory name, a separator and a file name, where
\* r is the first n characters of p and neither name holds a separator
IsLayout(p, n) ==
    /\ n + 2 <= Len(p)
    /\ p[n + 1] = Sep
    /\ \E m \in (n + 2)..Len(p) :
        /\ p[m] = Sep
        /\ \A k \in ((n + 2)..Len(p)) \ { m } : p[k] # Sep

\* C2: when the binary sits exactly two levels below the install root, the
\* root left by the double backward scan is selfPath without its last two
\* segments, and the scan stayed inside the buffer.
C2_InstallRoot ==
    \A n \in 0..Len(selfPath) :
        (IsLayout(selfPath, n) /\ pc \notin ScanPcs \cup { "term" })
            => /\ root = SubSeq(selfPath, 1, n)
               /\ ub \notin { "scan_read", "term_write" }

C2_Witness ==
    /\ pc = "fmt_ruby"
    /\ IsLayout(selfPath, 1)
    /\ Len(selfPath) = 4
    /\ root = << "a" >>

\* C3 (as stated): in every run both derived paths are the install root
\* followed by their suffix, byte for byte.
C3_Original ==
    Formatted => /\ ruby = root \o RubySuffix
                 /\ script = root \o ScriptSuffix

\* C4: when the child was created and has exited with code c, the exit
\* status of the launcher is c.
C4_ExitStatus ==
    (pc = "done" /\ child = "exited" /\ ub = "none")
        => ExitStatus(ret) = childCode

C4_Witness ==
    /\ pc = "done"
    /\ child = "exited"
    /\ ub = "none"
    /\ childCode = Dword(256, 0)
    /\ ExitStatus(ret) = Dword(256, 0)

\* C5 (as stated): when the spawn call fails the launcher exits with the
\* spawn-failure status, creates no child and has written nothing to
\* standard output, whatever the build mode.
C5_Original ==
    (pc = "done" /\ child = "none" /\ ub = "none")
        => /\ ExitStatus(ret) = AllOnes
           /\ spawnCalls = 1
           /\ out = << >>

\* C5 (amended): when the spawn call fails the launcher exits with the
\* spawn-failure status and creates no child; a release build has written
\* nothing to standard output, a debug build exactly its diagnostic lines.
C5_SpawnFailure ==
    (pc = "done" /\ child = "none" /\ ub = "none")
        => /\ ExitStatus(ret) = AllOnes
           /\ spawnCalls = 1
           /\ out = IF debug THEN DiagIn \o DiagOut(spawnArgv) ELSE << >>

C5_Witness ==
    /\ pc = "done"
    /\ child = "none"
    /\ ub = "none"
    /\ debug
    /\ _argc = 3
    /\ Len(out) = 8
    /\ ExitStatus(ret) = AllOnes

UnixRuby ==
    << "/", "o", "p", "t", "/", "a", "p", "p", "/", "r", "u", "b", "y", "/",
       "b", "i", "n", "/", "r", "u", "b", "y" >>

UnixScript ==
    << "/", "o", "p", "t", "/", "a", "p", "p", "/", "r", "u", "b", "y", "/",
       "b", "i", "n", "/", "r", "o", "c", "k", "u", "p" >>

WinRuby ==
    << "\\", "o", "p", "t", "\\", "a", "p", "p", "\\", "r", "u", "b", "y", "\\",
       "b", "i", "n", "\\", "r", "u", "b", "y", ".", "e", "x", "e" >>

WinScript ==
    << "\\", "o", "p", "t", "\\", "a", "p", "p", "\\", "r", "u", "b", "y", "\\",
       "b", "i", "n", "\\", "r", "o", "c", "k", "u", "p" >>

\* C6 (as stated): invoked as `launcher foo.txt --verbose` from the install
\* root /opt/app (with either separator), the vector handed to _spawnvp is
\* ["/opt/app/ruby/bin/ruby", "/opt/app/ruby/bin/rockup", "foo.txt",
\* "--verbose", NULL].
C6_Original ==
    (/\ spawnCalls = 1
     /\ _argv = << ProgName, FooTxt, Verbose >>
     /\ selfPath \in { WinScenarioPath, UnixScenarioPath })
        => spawnArgv = << UnixRuby, UnixScript, FooTxt, Verbose, NULL >>

\* C6 (amended): invoked as `launcher foo.txt --verbose` from
\* \opt\app\bin\launcher, the vector handed to _spawnvp is
\* ["\opt\app\ruby\bin\ruby.exe", "\opt\app\ruby\bin\rockup", "foo.txt",
\* "--verbose", NULL].
C6_Scenario ==
    (/\ spawnCalls = 1
     /\ _argv = << ProgName, FooTxt, Verbose >>
     /\ selfPath = WinScenarioPath)
        => spawnArgv = << WinRuby, WinScript, FooTxt, Verbose, NULL >>

C6_Witness ==
    /\ spawnCalls = 1
    /\ _argv = << ProgName, FooTxt, Verbose >>
    /\ selfPath = WinScenarioPath
    /\ spawnArgv[1] = WinRuby

\* C7: _spawnvp is called at most once, and exactly once in a run that
\* returns from main; the call is made with the interpreter path as both the
\* file to run and entry 0 of the vector, with the vector as the buffer holds
\* it after the copy loop and after all diagnostic output; and the launcher
\* is never terminated while the child is running.
C7_SpawnOnce ==
    /\ spawnCalls <= 1
    /\ pc = "done" => spawnCalls = 1
    /\ pc \in { "done", "crashed" } => child # "running"
    /\ child # "none" => spawnCalls = 1
    /\ spawnCalls = 1 =>
        /\ spawnPath = ruby
        /\ spawnArgv[1] = ruby
        /\ spawnOut = out
        /\ ub = "none" =>
            /\ spawnArgv = ChildArgv(argv)
            /\ Len(spawnArgv) = _argc + 2
            /\ out = IF debug THEN DiagIn \o DiagOut(spawnArgv) ELSE << >>

C7_Witness ==
    /\ pc = "done"
    /\ child = "exited"
    /\ debug
    /\ spawnCalls = 1
    /\ ub = "none"
    /\ _argc = 3

\* C8: with at least two separators in selfPath both scans and the write of
\* the terminator stay at indices 0 .. len-1; with fewer than two the scan
\* reads below index 0, and no error is reported.
C8_ScanBounds ==
    /\ TwoSeps =>
        /\ ub \notin { "scan_read", "term_write" }
        /\ pc \in { "scan1", "scan2", "term" } => (0 <= i /\ i <= Len(selfPath))
        /\ pc \in { "scan2", "term" } => i <= Len(selfPath) - 1
    /\ (~TwoSeps /\ pc \notin ScanPcs) => ub = "scan_read"
    /\ (~TwoSeps /\ pc \in { "scan1", "scan2" } /\ i < 0) => ub = "scan_read"

C8_Witness ==
    /\ ~TwoSeps
    /\ NumSeps(selfPath) = 1
    /\ pc = "spawn"
    /\ ub = "scan_read"
    /\ root = selfPath

\* C9 (as stated): when the number of forwarded arguments does not exceed SZ,
\* every write into the argv buffer is below index SZ and the buffer holds
\* the null entry after the last forwarded argument.
C9_Original ==
    (_argc - 1 <= SZ)
        => /\ ub # "argv_write"
           /\ pc = "copy" /\ x < _argc => i < SZ
           /\ Copied => (_argc + 2 <= SZ /\ argv[_argc + 2] = NULL)

\* C9 (amended): when the number of forwarded arguments does not exceed
\* SZ - 3, every write into the argv buffer is below index SZ and the buffer
\* holds the null entry after the last forwarded argument.
C9_Capacity ==
    (_argc - 1 <= SZ - 3)
        => /\ ub \notin { "argv_write", "argv_read" }
           /\ pc = "copy" /\ x < _argc => i < SZ
           /\ Copied => /\ argv[_argc + 2] = NULL
                        /\ \A k \in 1..(_argc + 1) : argv[k] # NULL

C9_Witness ==
    /\ _argc - 1 = SZ - 3
    /\ pc = "done"
    /\ argv[SZ] = NULL
    /\ argv[SZ - 1] = _argv[_argc]

\* C10: when the install root plus a suffix is longer than SZ - 1 bytes, the
\* derived path is the first SZ - 1 bytes of the concatenation, nothing but
\* the diagnostic lines is written, and the launcher does not return before
\* it has called _spawnvp with that path.
C10_SilentTruncation ==
    (TwoSeps /\ FitsArgv /\ Formatted)
        => /\ Len(root \o RubySuffix) > SZ - 1
              => /\ ruby = SubSeq(root \o RubySuffix, 1, SZ - 1)
                 /\ pc # "crashed"
                 /\ pc = "done" => (spawnCalls = 1 /\ spawnPath = ruby)
                 /\ ~debug => out = << >>
           /\ Len(root \o ScriptSuffix) > SZ - 1
              => /\ script = SubSeq(root \o ScriptSuffix, 1, SZ - 1)
                 /\ pc # "crashed"
                 /\ pc = "done" => (spawnCalls = 1 /\ spawnArgv[2] = script)
                 /\ ~debug => out = << >>

C10_Witness ==
    /\ pc = "done"
    /\ TwoSeps
    /\ Len(root \o ScriptSuffix) > SZ - 1
    /\ Len(ruby) = SZ - 1
    /\ ruby # root \o RubySuffix
    /\ spawnPath = ruby

====
